---- MODULE Spec2Model ----
(***************************************************************************)
(* Model of the v2 layer/network engine (src/src/v2/mod.rs): Neuron,       *)
(* DenseLayer (the NetLayer implementation) and ArtificialNetwork.         *)
(*                                                                         *)
(* Numbers: f64 values are modelled as integers; every formula of the      *)
(* source uses only +, -, * and the activation pair, so the integer model  *)
(* computes the same expressions exactly.  Vectors are sequences (index 1  *)
(* is Rust index 0), matrices are sequences of rows.                       *)
(***************************************************************************)
EXTENDS Integers, Sequences, FiniteSets, TLC

\* ---------------------------------------------------------------- bounds
MaxWidth == 2      \* largest layer input/output width
MaxLayers == 3     \* largest number of layers in a network
MaxSamples == 3    \* largest training set
MaxEpochs == 7     \* largest `epochs` argument of train
MaxTrains == 1     \* train calls per run
MaxOps == 4        \* calls made on the stand-alone layer
MaxUnits == 2      \* largest next layer handed to DenseLayer::backward

\* ------------------------------------------------------ input value sets
\* Vectors and matrices the callers hand in: stripes and checker patterns
\* over {0,1}.
VecPat(n) == {[j \in 1..n |-> (b * j + c) % 2] : b \in 0..1, c \in 0..1}
MatPat(r, n) ==
    {[i \in 1..r |-> [j \in 1..n |-> (a * i + b * j + c) % 2]] :
        a \in 0..1, b \in 0..1, c \in 0..1}
LRates == {1, 2}

\* ------------------------------------------------------------- helpers
RECURSIVE SumSeq(_)
SumSeq(s) == IF s = <<>> THEN 0 ELSE Head(s) + SumSeq(Tail(s))

Dot(a, b) == SumSeq([j \in 1..Len(a) |-> a[j] * b[j]])

Zeros(n) == [j \in 1..n |-> 0]

RECURSIVE Flatten(_)
Flatten(rows) == IF rows = <<>> THEN <<>> ELSE Head(rows) \o Flatten(Tail(rows))

\* ---------------------------------------------------------- activations
\* super::activations is not part of the sources at hand.  An Activation is
\* a pair (f, d) of total functions, d being evaluated on the activated
\* output.  Two saturating kinds are modelled: a hard tanh and a clamped
\* rectifier, both with derivatives expressible in terms of the output.
ActBound == 2
ActivationTypes == {"Default", "Relu"}

Clamp(x, lo, hi) == IF x < lo THEN lo ELSE IF x > hi THEN hi ELSE x

ActF(kind, x) ==
    IF kind = "Default" THEN Clamp(x, -ActBound, ActBound)
    ELSE Clamp(x, 0, ActBound)

ActD(kind, o) ==
    IF kind = "Default" THEN (IF -ActBound < o /\ o < ActBound THEN 1 ELSE 0)
    ELSE (IF 0 < o /\ o < ActBound THEN 1 ELSE 0)

\* ---------------------------------------------------------------- Neuron
NeuronNew(D, bias) == [weights |-> Zeros(D), bias |-> bias]

\* draw: the D values produced by the random source
NeuronRandomize(n, draw) == [n EXCEPT !.weights = draw]

NeuronNormalize(n) ==
    [weights |-> [j \in 1..Len(n.weights) |-> 1], bias |-> 0]

\* ------------------------------------------------------------ DenseLayer
DenseLayerNew(I, O) ==
    [I |-> I, O |-> O,
     neurons |-> [i \in 1..O |-> NeuronNew(I, 0)],
     weights_mat |-> [i \in 1..O |-> Zeros(I)],
     bias_vec |-> Zeros(O),
     activation |-> "Default",
     last_result |-> Zeros(O),
     error |-> Zeros(O)]

SetActivation(l, kind) == [l EXCEPT !.activation = kind]

UpdateWeightsMat(l) ==
    [l EXCEPT !.weights_mat = [i \in 1..l.O |-> l.neurons[i].weights]]

\* draws: one row of random values per neuron
Randomize(l, draws) ==
    UpdateWeightsMat(
        [l EXCEPT !.neurons = [i \in 1..l.O |-> NeuronRandomize(l.neurons[i], draws[i])]])

Normalize(l) ==
    UpdateWeightsMat(
        [l EXCEPT !.neurons = [i \in 1..l.O |-> NeuronNormalize(l.neurons[i])]])

Format(l) == <<l.I, l.O>>

LayerFoward(l, inputs) ==
    [i \in 1..l.O |->
        ActF(l.activation, Dot(l.weights_mat[i], inputs) + l.bias_vec[i])]

LayerFowardMut(l, inputs) == [l EXCEPT !.last_result = LayerFoward(l, inputs)]

GetWeights(l) == [i \in 1..l.O |-> l.neurons[i].weights]

GetLastResult(l) == l.last_result

GetErrors(l) == l.error

Derivatives(l) == [i \in 1..l.O |-> ActD(l.activation, l.last_result[i])]

LayerBackwardOutput(l, expected) ==
    [l EXCEPT !.error =
        [i \in 1..l.O |->
            ((expected[i] - l.last_result[i]) * (expected[i] - l.last_result[i]))
                * Derivatives(l)[i]]]

\* DMatrix::from_vec(nrows, ncols, data) fills column by column: element
\* (r, c) of the matrix is data[(c-1)*nrows + r].
DMatrixFromVec(nrows, ncols, data) ==
    [r \in 1..nrows |-> [c \in 1..ncols |-> data[(c - 1) * nrows + r]]]

Transpose(m) ==
    [c \in 1..Len(m[1]) |-> [r \in 1..Len(m) |-> m[r][c]]]

LayerBackward(l, nl_ws, nl_deltas) ==
    LET w_mat == DMatrixFromVec(Len(nl_ws), Len(nl_ws[1]), Flatten(nl_ws))
        wt == Transpose(w_mat)
        e == [j \in 1..Len(wt) |-> Dot(wt[j], nl_deltas)]
    IN  [l EXCEPT !.error = [j \in 1..l.O |-> e[j] * Derivatives(l)[j]]]

\* variant: `+=` in place of `-=`
UpdateLayerAdds(l, pl_result, l_rate) ==
    [l EXCEPT
        !.weights_mat =
            [i \in 1..l.O |-> [j \in 1..l.I |->
                l.weights_mat[i][j] + l_rate * l.error[i] * pl_result[j]]],
        !.bias_vec = [i \in 1..l.O |-> l.bias_vec[i] + l_rate * l.error[i]]]

UpdateLayer(l, pl_result, l_rate) ==
    [l EXCEPT
        !.weights_mat =
            [i \in 1..l.O |-> [j \in 1..l.I |->
                l.weights_mat[i][j] - l_rate * l.error[i] * pl_result[j]]],
        !.bias_vec = [i \in 1..l.O |-> l.bias_vec[i] - l_rate * l.error[i]]]

\* ===================================================== ArtificialNetwork
\* variant: compares the two input widths
VerifyNewLayerInputWidths(ls, new_layer) ==
    IF Len(ls) > 0
    THEN (IF Format(ls[Len(ls)])[1] # Format(new_layer)[1] THEN "panic" ELSE "ok")
    ELSE "ok"

VerifyNewLayer(ls, new_layer) ==
    IF Len(ls) > 0
    THEN (IF Format(ls[Len(ls)])[2] # Format(new_layer)[1] THEN "panic" ELSE "ok")
    ELSE "ok"

RECURSIVE FowardFrom(_, _, _)
FowardFrom(ls, k, inputs) ==
    IF k > Len(ls) THEN inputs
    ELSE FowardFrom(ls, k + 1, LayerFoward(ls[k], inputs))

NetFoward(ls, inputs) == FowardFrom(ls, 1, inputs)

GetLoss(ls, input, expected) ==
    LET out == NetFoward(ls, input)
        sub == [i \in 1..Format(ls[Len(ls)])[2] |-> out[i] - expected[i]]
    IN  SumSeq([i \in 1..Len(sub) |-> sub[i] * sub[i]])

\* variant: sample index off by one
SampleIndexShifted(i, train_data_size) == (i + 1) % train_data_size

\* index of the sample used by epoch i of train (0-based, as in the source)
SampleIndex(i, train_data_size) == i % train_data_size

\* variant: inclusive upper bound
EpochLoopInclusive(i, epochs) == i <= epochs

\* `for i in 0..epochs`: the loop body runs for index i
EpochLoopRuns(i, epochs) == i < epochs

\* first index of the update loop of learn (1-based: Rust index 1)
UpdateFirst == 2

VARIABLES
    layer, call, nops,      \* the stand-alone DenseLayer, its last call, calls made
    layers,                 \* ArtificialNetwork.layers
    status,                 \* "ok", or "panic" once a call has panicked
    pc,                     \* position inside train/learn, "idle" between calls
    tr,                     \* frame of train: arguments, loop index i, loss1, loss2
    lf,                     \* frame of learn: arguments, loop cursor k, vector in flight
    ret,                    \* last call on the network and what it returned
    log,                    \* steps of the current learn call with their cache accesses
    calls,                  \* learn calls made by the current train call
    ntrain                  \* train calls made

lvars == <<layer, call, nops>>
nvars == <<layers, status, pc, tr, lf, ret, log, calls, ntrain>>
vars == <<layer, call, nops, layers, status, pc, tr, lf, ret, log, calls, ntrain>>

NoTrain ==
    [inputs |-> <<>>, expected |-> <<>>, l_rate |-> 0, epochs |-> 0,
     i |-> -1, loss1 |-> 0, loss2 |-> 0]

NoLearn ==
    [inputs |-> <<>>, expected |-> <<>>, l_rate |-> 0, k |-> 0,
     cur |-> <<>>, ll_ws |-> <<>>, loss |-> 0, entry |-> <<>>]

NInit ==
    /\ layers = <<>>
    /\ status = "ok"
    /\ pc = "idle"
    /\ tr = NoTrain
    /\ lf = NoLearn
    /\ ret = [op |-> "new", args |-> <<>>, val |-> <<>>]
    /\ log = <<>>
    /\ calls = <<>>
    /\ ntrain = 0

\* a layer of any format just built by DenseLayer::new, no network in use
LInit ==
    /\ NInit
    /\ \E I \in 1..MaxWidth, O \in 1..MaxWidth : layer = DenseLayerNew(I, O)
    /\ call = [op |-> "new", args |-> <<>>, ret |-> <<>>]
    /\ nops = 0

\* ------------------------------------------- calls on a stand-alone layer
Tick == nops < MaxOps /\ nops' = nops + 1 /\ UNCHANGED nvars

LRandomize ==
    /\ Tick
    /\ \E draws \in MatPat(layer.O, layer.I) : layer' = Randomize(layer, draws)
    /\ call' = [op |-> "randomize", args |-> <<>>, ret |-> <<>>]

LNormalize ==
    /\ Tick
    /\ layer' = Normalize(layer)
    /\ call' = [op |-> "normalize", args |-> <<>>, ret |-> <<>>]

LSetActivation ==
    /\ Tick
    /\ \E kind \in ActivationTypes :
        /\ layer' = SetActivation(layer, kind)
        /\ call' = [op |-> "set_activation", args |-> <<kind>>, ret |-> <<>>]

LFoward ==
    /\ Tick
    /\ \E x \in VecPat(layer.I) :
        call' = [op |-> "foward", args |-> <<x>>, ret |-> LayerFoward(layer, x)]
    /\ UNCHANGED layer

LFowardMut ==
    /\ Tick
    /\ \E x \in VecPat(layer.I) :
        /\ layer' = LayerFowardMut(layer, x)
        /\ call' = [op |-> "foward_mut", args |-> <<x>>, ret |-> layer'.last_result]

LGetWeights ==
    /\ Tick
    /\ call' = [op |-> "get_weights", args |-> <<>>, ret |-> GetWeights(layer)]
    /\ UNCHANGED layer

LBackwardOutput ==
    /\ Tick
    /\ \E expected \in VecPat(layer.O) :
        /\ layer' = LayerBackwardOutput(layer, expected)
        /\ call' = [op |-> "backward_output", args |-> <<expected>>, ret |-> layer'.error]

LBackward ==
    /\ Tick
    /\ \E U \in 1..MaxUnits :
        \E nl_ws \in MatPat(U, layer.O), nl_deltas \in VecPat(U) :
            /\ layer' = LayerBackward(layer, nl_ws, nl_deltas)
            /\ call' = [op |-> "backward", args |-> <<nl_ws, nl_deltas>>,
                        ret |-> layer'.error]

LUpdateLayer ==
    /\ Tick
    /\ \E pl_result \in VecPat(layer.I), l_rate \in LRates :
        /\ layer' = UpdateLayer(layer, pl_result, l_rate)
        /\ call' = [op |-> "update_layer", args |-> <<pl_result, l_rate>>, ret |-> <<>>]

LNext ==
    \/ LRandomize
    \/ LNormalize
    \/ LSetActivation
    \/ LFoward
    \/ LFowardMut
    \/ LGetWeights
    \/ LBackwardOutput
    \/ LBackward
    \/ LUpdateLayer

SpecLayer == LInit /\ [][LNext]_vars

\* ------------------------------------------------- calls on the network
\* Layers handed to add_layer: built by new(), then normalize() or
\* randomize() with a draw that differs from row to row.
NetDraws(O, I) == {[i \in 1..O |-> [j \in 1..I |-> i % 2]]}

\* epochs arguments of train
EpochChoices == {0, 1, MaxEpochs}

\* widths of the layers handed to add_layer
Widths == {1, MaxWidth}

NewLayers ==
    UNION {
        {Normalize(DenseLayerNew(I, O))}
            \cup {Randomize(DenseLayerNew(I, O), d) : d \in NetDraws(O, I)} :
        I \in Widths, O \in Widths}

\* learning rates handed to train
TrainRates == {2}

\* sizes of the training sets handed to train
SampleCounts == {0, 1, MaxSamples}

\* Training sets of N samples for a network of input width I and output
\* width O; the N (input, target) pairs are pairwise different for N <= 4.
DataSet(N, I, O) ==
    [inputs |-> [k \in 1..N |-> [j \in 1..I |-> (k + j) % 2]],
     expected |-> [k \in 1..N |-> [j \in 1..O |-> (((k - 1) \div 2) + j) % 2]]]

Idle == pc = "idle" /\ status = "ok"

AddLayer ==
    /\ Idle
    /\ Len(layers) < MaxLayers
    /\ \E l \in NewLayers :
        /\ ret' = [op |-> "add_layer", args |-> <<l>>, val |-> <<>>]
        /\ IF VerifyNewLayer(layers, l) = "panic"
           THEN status' = "panic" /\ UNCHANGED layers
           ELSE layers' = Append(layers, l) /\ UNCHANGED status
    /\ UNCHANGED <<pc, tr, lf, log, calls, ntrain, lvars>>

\* variant: runs foward_mut on every layer
FowardCaching ==
    /\ Idle
    /\ \E x \in VecPat(IF Len(layers) = 0 THEN MaxWidth ELSE layers[1].I) :
        /\ ret' = [op |-> "foward", args |-> <<x>>, val |-> NetFoward(layers, x)]
        /\ layers' = [k \in 1..Len(layers) |->
                        LayerFowardMut(layers[k], NetFoward(SubSeq(layers, 1, k - 1), x))]
    /\ UNCHANGED <<status, pc, tr, lf, log, calls, ntrain, lvars>>

Foward ==
    /\ Idle
    /\ \E x \in VecPat(IF Len(layers) = 0 THEN MaxWidth ELSE layers[1].I) :
        ret' = [op |-> "foward", args |-> <<x>>, val |-> NetFoward(layers, x)]
    /\ UNCHANGED <<layers, status, pc, tr, lf, log, calls, ntrain, lvars>>

\* entry of learn(inputs, expected, l_rate): clones taken, foward_mut about
\* to start; `entry` keeps the layers as they were when learn was called
LearnFrame(inputs, expected, l_rate) ==
    [inputs |-> inputs, expected |-> expected, l_rate |-> l_rate, k |-> 1,
     cur |-> inputs, ll_ws |-> <<>>, loss |-> 0, entry |-> layers]

Train ==
    /\ Idle
    /\ ntrain < MaxTrains
    /\ ntrain' = ntrain + 1
    /\ \E N \in SampleCounts, l_rate \in TrainRates, epochs \in EpochChoices :
        LET ds == DataSet(N,
                          IF Len(layers) = 0 THEN 1 ELSE layers[1].I,
                          IF Len(layers) = 0 THEN 1 ELSE layers[Len(layers)].O)
        IN  /\ ret' = [op |-> "train", args |-> <<ds.inputs, ds.expected, l_rate, epochs>>,
                       val |-> <<>>]
            /\ tr' = [inputs |-> ds.inputs, expected |-> ds.expected,
                      l_rate |-> l_rate, epochs |-> epochs,
                      i |-> -1, loss1 |-> 0, loss2 |-> 0]
            /\ IF N = 0
               THEN \* inputs[0] is out of bounds
                    /\ status' = "panic"
                    /\ calls' = <<>>
                    /\ UNCHANGED <<pc, lf, log>>
               ELSE /\ calls' = <<[i |-> -1, inputs |-> ds.inputs[1],
                                   expected |-> ds.expected[1]]>>
                    /\ lf' = LearnFrame(ds.inputs[1], ds.expected[1], l_rate)
                    /\ log' = <<>>
                    /\ IF Len(layers) = 0
                       THEN \* foward_mut does nothing, backward panics
                            status' = "panic" /\ UNCHANGED pc
                       ELSE pc' = "foward_mut" /\ UNCHANGED status
    /\ UNCHANGED <<layers, lvars>>

Event(op, k, arg, reads, writes) ==
    [op |-> op, layer |-> k, arg |-> arg, reads |-> reads, writes |-> writes]

FowardMutStep ==
    /\ pc = "foward_mut"
    /\ LET k == lf.k
           l == LayerFowardMut(layers[k], lf.cur)
       IN  /\ layers' = [layers EXCEPT ![k] = l]
           /\ lf' = [lf EXCEPT !.k = k + 1, !.cur = l.last_result]
           /\ log' = Append(log, Event("foward_mut", k, lf.cur, {},
                                       {<<"last_result", k>>}))
           /\ pc' = IF k = Len(layers) THEN "backward_output" ELSE "foward_mut"
    /\ UNCHANGED <<status, tr, ret, calls, ntrain, lvars>>

\* variant: the delta returned by backward_output is dropped
BackwardOutputStepKeepsExpected ==
    /\ pc = "backward_output"
    /\ LET size == Len(layers)
           l == LayerBackwardOutput(layers[size], lf.expected)
       IN  /\ layers' = [layers EXCEPT ![size] = l]
           /\ lf' = [lf EXCEPT !.k = IF size - 1 >= 1 THEN size - 1 ELSE UpdateFirst,
                               !.cur = lf.expected, !.ll_ws = GetWeights(l)]
           /\ log' = Append(log, Event("backward_output", size, lf.expected,
                                       {<<"last_result", size>>},
                                       {<<"error", size>>}))
           /\ pc' = IF size - 1 >= 1 THEN "backward" ELSE "update"
    /\ UNCHANGED <<status, tr, ret, calls, ntrain, lvars>>

BackwardOutputStep ==
    /\ pc = "backward_output"
    /\ LET size == Len(layers)
           l == LayerBackwardOutput(layers[size], lf.expected)
       IN  /\ layers' = [layers EXCEPT ![size] = l]
           /\ lf' = [lf EXCEPT !.k = IF size - 1 >= 1 THEN size - 1 ELSE UpdateFirst,
                               !.cur = l.error, !.ll_ws = GetWeights(l)]
           /\ log' = Append(log, Event("backward_output", size, lf.expected,
                                       {<<"last_result", size>>},
                                       {<<"error", size>>}))
           /\ pc' = IF size - 1 >= 1 THEN "backward" ELSE "update"
    /\ UNCHANGED <<status, tr, ret, calls, ntrain, lvars>>

BackwardStep ==
    /\ pc = "backward"
    /\ LET k == lf.k
           l == LayerBackward(layers[k], lf.ll_ws, lf.cur)
       IN  /\ layers' = [layers EXCEPT ![k] = l]
           /\ lf' = [lf EXCEPT !.k = IF k - 1 >= 1 THEN k - 1 ELSE UpdateFirst,
                               !.cur = l.error, !.ll_ws = GetWeights(l)]
           /\ log' = Append(log, Event("backward", k, lf.cur,
                                       {<<"last_result", k>>},
                                       {<<"error", k>>}))
           /\ pc' = IF k - 1 >= 1 THEN "backward" ELSE "update"
    /\ UNCHANGED <<status, tr, ret, calls, ntrain, lvars>>

\* the update loop of learn: each iteration updates one layer, leaving
\* the loop calls get_loss and returns
UpdateStep ==
    /\ pc = "update"
    /\ LET k == lf.k
       IN  IF k <= Len(layers)
           THEN LET previous_layer_result == GetLastResult(layers[k - 1])
                IN  /\ layers' = [layers EXCEPT
                            ![k] = UpdateLayer(layers[k], previous_layer_result, lf.l_rate)]
                    /\ lf' = [lf EXCEPT !.k = k + 1]
                    /\ log' = Append(log, Event("update_layer", k, previous_layer_result,
                                                {<<"last_result", k - 1>>, <<"error", k>>},
                                                {}))
                    /\ UNCHANGED pc
           ELSE /\ lf' = [lf EXCEPT !.loss = GetLoss(layers, lf.inputs, lf.expected)]
                /\ log' = Append(log, Event("get_loss", 0, lf.inputs, {}, {}))
                /\ pc' = "learned"
                /\ UNCHANGED layers
    /\ UNCHANGED <<status, tr, ret, calls, ntrain, lvars>>

\* learn has returned into train: the loss is stored and the epoch loop
\* either calls learn again or train returns (loss1, loss2)
TrainLoop ==
    /\ pc = "learned"
    /\ LET loss1 == IF tr.i = -1 THEN lf.loss ELSE tr.loss1
           loss2 == IF tr.i = -1 THEN 0 ELSE lf.loss
           i == tr.i + 1
           train_data_size == Len(tr.inputs)
       IN  IF EpochLoopRuns(i, tr.epochs)
           THEN LET s == SampleIndex(i, train_data_size) + 1
                IN  /\ tr' = [tr EXCEPT !.i = i, !.loss1 = loss1, !.loss2 = loss2]
                    /\ lf' = LearnFrame(tr.inputs[s], tr.expected[s], tr.l_rate)
                    /\ calls' = Append(calls, [i |-> i, inputs |-> tr.inputs[s],
                                               expected |-> tr.expected[s]])
                    /\ log' = <<>>
                    /\ pc' = "foward_mut"
                    /\ UNCHANGED ret
           ELSE /\ tr' = [tr EXCEPT !.i = i, !.loss1 = loss1, !.loss2 = loss2]
                /\ ret' = [ret EXCEPT !.val = <<loss1, loss2>>]
                /\ pc' = "idle"
                /\ UNCHANGED <<lf, calls, log>>
    /\ UNCHANGED <<layers, status, ntrain, lvars>>

Next ==
    \/ AddLayer
    \/ Foward
    \/ Train
    \/ FowardMutStep
    \/ BackwardOutputStep
    \/ BackwardStep
    \/ UpdateStep
    \/ TrainLoop

Init == NInit /\ layer = DenseLayerNew(1, 1)
             /\ call = [op |-> "new", args |-> <<>>, ret |-> <<>>]
             /\ nops = 0

Spec == Init /\ [][Next]_vars

\* ====================================================== stated properties
Chained(ls) == \A k \in 1..(Len(ls) - 1) : ls[k].O = ls[k + 1].I

IsAddLayerStep ==
    /\ pc = "idle"
    /\ ret'.op = "add_layer"
    /\ <<layers', status', ret'>> # <<layers, status, ret>>

\* C1: every adjacent pair of stored layers has output width = input width;
\* add_layer of a layer whose input width differs from the last layer's
\* output width panics and leaves the layer sequence as it was; any other
\* add_layer (the first one included) appends the layer.
C1_AddLayerKeepsChain ==
    [][/\ Chained(layers')
       /\ IsAddLayerStep =>
            LET l == ret'.args[1] IN
            IF Len(layers) > 0 /\ layers[Len(layers)].O # l.I
            THEN status' = "panic" /\ layers' = layers
            ELSE status' = "ok" /\ layers' = Append(layers, l)]_vars

C1_Witness ==
    /\ status = "panic"
    /\ ret.op = "add_layer"
    /\ Len(layers) >= 2
    /\ layers[Len(layers)].O # ret.args[1].I

TrainReturned == pc = "idle" /\ status = "ok" /\ ret.op = "train" /\ ret.val # <<>>

\* C2 (as stated): a train call that returns has run exactly `epochs`
\* learning steps in total.
C2_ExactlyEpochsLearns == TrainReturned => Len(calls) = tr.epochs

\* C2 (amended): a train call that returns has run exactly epochs + 1
\* learning steps: one on sample 0 before the epoch loop, then one per epoch.
C2_EpochsPlusOneLearns ==
    TrainReturned =>
        /\ Len(calls) = tr.epochs + 1
        /\ calls[1] = [i |-> -1, inputs |-> tr.inputs[1], expected |-> tr.expected[1]]
        /\ \A p \in 2..Len(calls) : calls[p].i = p - 2

C2_Witness == TrainReturned /\ tr.epochs >= 2 /\ Len(tr.inputs) >= 2

\* C3: the learning step of epoch index i uses the pair
\* (inputs[i mod N], expected[i mod N]), epochs being run in increasing order.
C3_CyclicSampling ==
    \A p \in 2..Len(calls) :
        LET i == p - 2
            N == Len(tr.inputs)
        IN  calls[p] = [i |-> i, inputs |-> tr.inputs[(i % N) + 1],
                        expected |-> tr.expected[(i % N) + 1]]

\* 3 samples, 7 epochs: sample indices [0,1,2,0,1,2,0]
C3_Witness ==
    /\ Len(tr.inputs) = 3
    /\ Len(calls) = 8
    /\ [p \in 1..7 |-> calls[p + 1].inputs]
         = [p \in 1..7 |-> tr.inputs[<<1, 2, 3, 1, 2, 3, 1>>[p]]]

\* C4: when learn has run its update pass, the first layer's weight matrix
\* and bias vector are as they were on entry, and every later layer k has
\* weight[i][j] decreased by lr * error_k[i] * last_result_{k-1}[j] and
\* bias[i] decreased by lr * error_k[i].
C4_FirstLayerFrozenOthersUpdated ==
    pc = "learned" =>
        /\ layers[1].weights_mat = lf.entry[1].weights_mat
        /\ layers[1].bias_vec = lf.entry[1].bias_vec
        /\ \A k \in 2..Len(layers) : \A i \in 1..layers[k].O :
            /\ layers[k].bias_vec[i]
                 = lf.entry[k].bias_vec[i] - lf.l_rate * layers[k].error[i]
            /\ \A j \in 1..layers[k].I :
                 layers[k].weights_mat[i][j]
                   = lf.entry[k].weights_mat[i][j]
                       - lf.l_rate * layers[k].error[i] * layers[k - 1].last_result[j]

C4_Witness ==
    /\ pc = "learned"
    /\ Len(layers) = 3
    /\ layers[2].weights_mat # lf.entry[2].weights_mat
    /\ layers[3].weights_mat # lf.entry[3].weights_mat
    /\ layers[3].bias_vec # lf.entry[3].bias_vec

\* C5: foward on a network with zero layers fails instead of returning a
\* result, i.e. no state has a result returned by foward on an empty network.
C5_EmptyNetworkFowardFails ==
    ~(status = "ok" /\ ret.op = "foward" /\ Len(layers) = 0)

IsFowardStep == pc = "idle" /\ pc' = "idle" /\ ret'.op = "foward" /\ status' = "ok"

\* C6: foward changes no layer (weights, biases, last_result, error), a
\* second call with the same input returns the same output, and the output
\* is as long as the last layer's output width.
C6_FowardPure ==
    [][IsFowardStep =>
        /\ layers' = layers
        /\ ret'.val = NetFoward(layers', ret'.args[1])
        /\ Len(layers) >= 1 => Len(ret'.val) = layers[Len(layers)].O]_vars

C6_Witness ==
    /\ ret.op = "foward"
    /\ Len(layers) >= 2
    /\ ntrain >= 1
    /\ \E k \in 1..Len(layers) : layers[k].error # Zeros(layers[k].O)

\* C7: backward(next_layer_weights, next_layer_deltas) returns and caches
\* delta[j] = (sum over u of next_layer_weights[u][j] * next_layer_deltas[u])
\* * d(last_result[j]), for a next layer of any shape.
C7_BackwardIsTransposeProduct ==
    call.op = "backward" =>
        LET nl_ws == call.args[1]
            nl_deltas == call.args[2]
        IN  /\ call.ret = layer.error
            /\ \A j \in 1..layer.O :
                 layer.error[j]
                   = SumSeq([u \in 1..Len(nl_ws) |-> nl_ws[u][j] * nl_deltas[u]])
                       * ActD(layer.activation, layer.last_result[j])

\* C8: get_weights returns the weights foward computes with.
C8_GetWeightsAreFowardWeights == GetWeights(layer) = layer.weights_mat

\* C9: right after normalize, every weight used by foward is 1, every bias
\* used by foward is 0 and foward(x) is activation_f(sum of x) for every unit.
C9_NormalizeResetsFoward ==
    call.op = "normalize" =>
        /\ \A i \in 1..layer.O : \A j \in 1..layer.I : layer.weights_mat[i][j] = 1
        /\ \A i \in 1..layer.O : layer.bias_vec[i] = 0
        /\ \A x \in VecPat(layer.I) :
             LayerFoward(layer, x) = [i \in 1..layer.O |-> ActF(layer.activation, SumSeq(x))]

\* the order of the steps of one learn call on a network of L layers
ExpectedOrder(L) ==
    [p \in 1..(3 * L) |->
        IF p <= L THEN <<"foward_mut", p>>
        ELSE IF p = L + 1 THEN <<"backward_output", L>>
        ELSE IF p <= 2 * L THEN <<"backward", 2 * L + 1 - p>>
        ELSE IF p <= 3 * L - 1 THEN <<"update_layer", p - 2 * L + 1>>
        ELSE <<"get_loss", 0>>]

\* C10: within a learn step the phases run in the order foward_mut (layers
\* ascending), backward_output on the last layer, backward on the layers
\* before it in descending order, each receiving the delta just computed by
\* the layer after it, update_layer on layers 1..L-1, loss; and every cache
\* a step reads was written by an earlier step of the same learn call.
C10_PhaseOrder ==
    LET L == Len(layers) IN
    pc # "idle" =>
    /\ Len(log) <= 3 * L
    /\ \A p \in 1..Len(log) : <<log[p].op, log[p].layer>> = ExpectedOrder(L)[p]
    /\ pc = "learned" => Len(log) = 3 * L
    /\ \A p \in 1..Len(log) :
        /\ log[p].op = "backward" => log[p].arg = layers[log[p].layer + 1].error
        /\ \A r \in log[p].reads : \E q \in 1..(p - 1) : r \in log[q].writes

C10_Witness ==
    /\ pc = "learned"
    /\ Len(layers) = 3
    /\ Len(log) = 9
    /\ \E p \in 1..Len(log) : log[p].op = "backward" /\ log[p].arg # Zeros(Len(log[p].arg))

====
